---- MODULE Spec2Model ----
(***************************************************************************)
(* Model of the two Netlify functions of webhookconnexion.js: the          *)
(* connection proxy (handler "connexion") and the review proxy (handler    *)
(* "avis").  Each has its own rateLimitMap, window and maximum.            *)
(*                                                                         *)
(* The file holds two Netlify functions, each a module of its own with its  *)
(* own constants and its own rateLimitMap; they are deployed apart and      *)
(* share no state, so a behaviour follows the process of one of them, fn.   *)
(*                                                                         *)
(* A JavaScript invocation runs without interruption up to its only        *)
(* `await` (the fetch), so one action models a handler from its entry to   *)
(* its return, its uncaught exception or the start of its fetch; a second  *)
(* action models the settlement of a started fetch.                        *)
(***************************************************************************)
EXTENDS Integers, Sequences, FiniteSets, TLC

VARIABLES
    fn,             \* the function this process serves
    now,            \* Date.now(), in milliseconds
    ticks,          \* number of clock advances so far (bounds the clock)
    env,            \* process.env: variable name -> string (partial)
    rateLimitMap,   \* handler -> (ip -> [count, start]) (partial per handler)
    window,         \* history: handler -> (ip -> the ip's current window, see OpenWindow)
    inflight,       \* slot -> invocation suspended at its `await fetch`, or Idle
    last            \* history: what the step just taken did, see Step

vars == <<fn, now, ticks, env, rateLimitMap, window, inflight, last>>

----------------------------------------------------------------------------
(* Bounds of the model *)

MaxTicks == 1
MaxInFlight == 1
MaxSeenExtra == 1

----------------------------------------------------------------------------
(* Strings.  A string is a sequence of runs [c |-> character, n |-> length], *)
(* no two adjacent runs having the same character, so that a 4096-character  *)
(* description is one run.                                                   *)

Run(c, n) == [c |-> c, n |-> n]

RECURSIVE StrLen(_)
StrLen(s) == IF s = <<>> THEN 0 ELSE Head(s).n + StrLen(Tail(s))

\* s1 + s2
StrConcat(s1, s2) ==
    IF s1 = <<>> THEN s2
    ELSE IF s2 = <<>> THEN s1
    ELSE IF s1[Len(s1)].c = Head(s2).c
         THEN SubSeq(s1, 1, Len(s1) - 1)
                \o <<Run(Head(s2).c, s1[Len(s1)].n + Head(s2).n)>>
                \o Tail(s2)
         ELSE s1 \o s2

\* the string made of the characters of the sequence cs
RECURSIVE Lit(_)
Lit(cs) == IF cs = <<>> THEN <<>> ELSE StrConcat(<<Run(Head(cs), 1)>>, Lit(Tail(cs)))

\* s.slice(0, k)
RECURSIVE StrSlice(_, _)
StrSlice(s, k) ==
    IF s = <<>> \/ k <= 0 THEN <<>>
    ELSE IF Head(s).n >= k THEN <<Run(Head(s).c, k)>>
    ELSE <<Head(s)>> \o StrSlice(Tail(s), k - Head(s).n)

WhiteSpace == {" ", "\t", "\n"}

RECURSIVE TrimStart(_)
TrimStart(s) ==
    IF s # <<>> /\ Head(s).c \in WhiteSpace THEN TrimStart(Tail(s)) ELSE s

RECURSIVE TrimEnd(_)
TrimEnd(s) ==
    IF s # <<>> /\ s[Len(s)].c \in WhiteSpace
    THEN TrimEnd(SubSeq(s, 1, Len(s) - 1)) ELSE s

\* s.trim()
StrTrim(s) == TrimEnd(TrimStart(s))

\* s.split(',')[0]: the characters before the first comma
RECURSIVE SplitFirst(_)
SplitFirst(s) ==
    IF s = <<>> \/ Head(s).c = "," THEN <<>>
    ELSE <<Head(s)>> \o SplitFirst(Tail(s))

Digits == {"0", "1", "2", "3", "4", "5", "6", "7", "8", "9"}

DigitVal(c) ==
    CASE c = "0" -> 0 [] c = "1" -> 1 [] c = "2" -> 2 [] c = "3" -> 3
      [] c = "4" -> 4 [] c = "5" -> 5 [] c = "6" -> 6 [] c = "7" -> 7
      [] c = "8" -> 8 [] c = "9" -> 9

\* the decimal value of the leading digit characters of s, continuing from acc.
\* The value saturates at ParseIntCap: the handlers only compare it with 1
\* and 5, and JavaScript numbers do not wrap.
ParseIntCap == 1000

RECURSIVE DigitsValue(_, _)
DigitsValue(s, acc) ==
    IF s = <<>> \/ Head(s).c \notin Digits \/ acc >= ParseIntCap
    THEN IF acc >= ParseIntCap THEN ParseIntCap ELSE acc
    ELSE LET r == Head(s)
             rest == IF r.n = 1 THEN Tail(s) ELSE <<Run(r.c, r.n - 1)>> \o Tail(s)
         IN DigitsValue(rest, acc * 10 + DigitVal(r.c))

HexDigits == Digits \cup {"a", "b", "c", "d", "e", "f"}

HexVal(c) ==
    CASE c \in Digits -> DigitVal(c)
      [] c = "a" -> 10 [] c = "b" -> 11 [] c = "c" -> 12
      [] c = "d" -> 13 [] c = "e" -> 14 [] c = "f" -> 15

RECURSIVE HexValue(_, _)
HexValue(s, acc) ==
    IF s = <<>> \/ Head(s).c \notin HexDigits \/ acc >= ParseIntCap
    THEN IF acc >= ParseIntCap THEN ParseIntCap ELSE acc
    ELSE LET r == Head(s)
             rest == IF r.n = 1 THEN Tail(s) ELSE <<Run(r.c, r.n - 1)>> \o Tail(s)
         IN HexValue(rest, acc * 16 + HexVal(r.c))

\* parseInt(s) without a radix: leading white space is skipped, one sign is
\* accepted, a 0x prefix selects base 16, the longest prefix of digits is
\* read and the rest ignored; no digit at all gives NaN.
parseInt(s) ==
    LET t == TrimStart(s)
        signed == t # <<>> /\ Head(t).c \in {"-", "+"}
        body == IF ~signed THEN t
                ELSE IF Head(t).n = 1 THEN Tail(t)
                ELSE <<Run(Head(t).c, Head(t).n - 1)>> \o Tail(t)
        neg == signed /\ Head(t).c = "-"
        hex == /\ Len(body) >= 2
               /\ body[1] = Run("0", 1)
               /\ body[2].c \in {"x", "X"}
        hexBody == IF ~hex THEN <<>>
                   ELSE IF body[2].n = 1 THEN SubSeq(body, 3, Len(body))
                   ELSE <<Run(body[2].c, body[2].n - 1)>> \o SubSeq(body, 3, Len(body))
        mag == IF hex THEN HexValue(hexBody, 0) ELSE DigitsValue(body, 0)
        none == IF hex THEN hexBody = <<>> \/ Head(hexBody).c \notin HexDigits
                ELSE body = <<>> \/ Head(body).c \notin Digits
    IN IF none THEN [nan |-> TRUE, v |-> 0]
       ELSE [nan |-> FALSE, v |-> IF neg THEN 0 - mag ELSE mag]

\* /^\d{15,20}$/.test(s)
IsDiscordId(s) ==
    /\ \A i \in 1..Len(s) : s[i].c \in Digits
    /\ StrLen(s) >= 15
    /\ StrLen(s) <= 20

----------------------------------------------------------------------------
(* JavaScript values as JSON.parse produces them.  A number is kept as the  *)
(* decimal text String() gives for it: the handlers do no arithmetic on a   *)
(* parsed number.  A JSON number too large for a double, such as 1e999, is  *)
(* parsed to Infinity.  An object is a function from its own keys to values. *)

JUndefined == [t |-> "undefined"]
JNull == [t |-> "null"]
JBool(b) == [t |-> "boolean", b |-> b]
JNum(text) == [t |-> "number", d |-> text]
Infinity == JNum(Lit(<<"I", "n", "f", "i", "n", "i", "t", "y">>))
MinusInfinity == JNum(Lit(<<"-", "I", "n", "f", "i", "n", "i", "t", "y">>))
JStr(s) == [t |-> "string", s |-> s]
JArr(a) == [t |-> "array", a |-> a]
JObj(o) == [t |-> "object", o |-> o]
\* the string new Date(ms).toISOString()
JIsoDate(ms) == [t |-> "string", iso |-> ms]

EmptyString == JStr(<<>>)

\* !!v
Truthy(v) ==
    CASE v.t \in {"undefined", "null"} -> FALSE
      [] v.t = "boolean" -> v.b
      [] v.t = "number" -> v.d \notin {Lit(<<"0">>), Lit(<<"-", "0">>)}
      [] v.t = "string" -> v # EmptyString
      [] OTHER -> TRUE

\* a || b
Or(a, b) == IF Truthy(a) THEN a ELSE b

\* reading v.k throws a TypeError when v is null or undefined
Nullish(v) == v.t \in {"undefined", "null"}

\* v.k for a v that is not nullish (none of the keys the handlers read is a
\* property of a string, number, boolean or array)
Prop(v, k) ==
    IF v.t = "object" /\ k \in DOMAIN v.o THEN v.o[k] ELSE JUndefined

\* String(v)
RECURSIVE JsString(_)
RECURSIVE JoinComma(_)
JoinComma(a) ==
    IF a = <<>> THEN <<>>
    ELSE LET h == IF Nullish(Head(a)) THEN <<>> ELSE JsString(Head(a))
         IN IF Len(a) = 1 THEN h
            ELSE StrConcat(StrConcat(h, Lit(<<",">>)), JoinComma(Tail(a)))

JsString(v) ==
    CASE v.t = "undefined" -> Lit(<<"u", "n", "d", "e", "f", "i", "n", "e", "d">>)
      [] v.t = "null" -> Lit(<<"n", "u", "l", "l">>)
      [] v.t = "boolean" -> IF v.b THEN Lit(<<"t", "r", "u", "e">>)
                            ELSE Lit(<<"f", "a", "l", "s", "e">>)
      [] v.t = "number" -> v.d
      [] v.t = "string" -> v.s
      [] v.t = "array" -> JoinComma(v.a)
      [] v.t = "object" ->
            Lit(<<"[", "o", "b", "j", "e", "c", "t", " ", "O", "b", "j", "e", "c", "t", "]">>)

\* event.body is a string, or null when the request has none.  A body is
\* the text of a JSON value or a text that is not JSON.
NoBody == [text |-> "null"]
Malformed == [text |-> "malformed"]
JsonText(v) == [text |-> "json", value |-> v]

\* JSON.parse(body): null is converted to the text "null" first
JSONparse(body) ==
    CASE body.text = "malformed" -> [threw |-> TRUE, value |-> JUndefined]
      [] body.text = "null" -> [threw |-> FALSE, value |-> JNull]
      [] body.text = "json" -> [threw |-> FALSE, value |-> body.value]

\* the value a reader of JSON.stringify(v) gets back: members whose value is
\* undefined are dropped, undefined array elements become null, and a number
\* that is not finite is written as null
RECURSIVE JSONstringify(_)
JSONstringify(v) ==
    CASE v.t = "object" ->
            LET keep == {k \in DOMAIN v.o : v.o[k].t # "undefined"}
            IN JObj([k \in keep |-> JSONstringify(v.o[k])])
      [] v.t = "array" ->
            JArr([i \in 1..Len(v.a) |->
                    IF v.a[i].t = "undefined" THEN JNull ELSE JSONstringify(v.a[i])])
      [] v.t = "number" -> IF v \in {Infinity, MinusInfinity} THEN JNull ELSE v
      [] OTHER -> v

----------------------------------------------------------------------------
(* The two functions and their configuration *)

Handlers == {"connexion", "avis"}

ALLOWED_ORIGIN == "https://devcenter.vyral-studio.fr"

RATE_LIMIT_WINDOW_MS(h) == IF h = "connexion" THEN 60 * 1000 ELSE 5 * 60 * 1000

RATE_LIMIT_MAX(h) == IF h = "connexion" THEN 5 ELSE 2

\* the environment variable each function reads its webhook URL from
WebhookVar(h) == IF h = "connexion" THEN "WEBHOOK_CONNEXIONS" ELSE "WEBHOOK_AVIS"

\* mutant: only a missing variable counts as not configured
WebhookConfigured_AbsentOnly(e, h) == WebhookVar(h) \in DOMAIN e

\* process.env[name] || undefined, and its truthiness
WebhookConfigured(e, h) == WebhookVar(h) \in DOMAIN e /\ e[WebhookVar(h)] # ""

----------------------------------------------------------------------------
(* Rate limiter *)

\* Map.prototype.set
MapSet(m, k, v) == [x \in DOMAIN m \cup {k} |-> IF x = k THEN v ELSE m[x]]

\* mutant: the count is compared with > instead of >=
isRateLimited_OffByOne(h, ip, t, m) ==
    LET entry == IF ip \in DOMAIN m THEN m[ip] ELSE [count |-> 0, start |-> t]
    IN IF t - entry.start > RATE_LIMIT_WINDOW_MS(h)
       THEN [limited |-> FALSE, map |-> MapSet(m, ip, [count |-> 1, start |-> t])]
       ELSE IF entry.count > RATE_LIMIT_MAX(h)
       THEN [limited |-> TRUE, map |-> m]
       ELSE [limited |-> FALSE,
             map |-> MapSet(m, ip, [count |-> entry.count + 1, start |-> entry.start])]

\* mutant: the entry of a new ip is never stored
isRateLimited_NoSet(h, ip, t, m) ==
    LET entry == IF ip \in DOMAIN m THEN m[ip] ELSE [count |-> 0, start |-> t]
    IN IF t - entry.start > RATE_LIMIT_WINDOW_MS(h)
       THEN [limited |-> FALSE, map |-> MapSet(m, ip, [count |-> 1, start |-> t])]
       ELSE IF entry.count >= RATE_LIMIT_MAX(h)
       THEN [limited |-> TRUE, map |-> m]
       ELSE [limited |-> FALSE,
             map |-> IF ip \in DOMAIN m
                     THEN MapSet(m, ip, [count |-> entry.count + 1, start |-> entry.start])
                     ELSE m]

\* mutant: the window expires with >= instead of >
isRateLimited_InclusiveExpiry(h, ip, t, m) ==
    LET entry == IF ip \in DOMAIN m THEN m[ip] ELSE [count |-> 0, start |-> t]
    IN IF t - entry.start >= RATE_LIMIT_WINDOW_MS(h)
       THEN [limited |-> FALSE, map |-> MapSet(m, ip, [count |-> 1, start |-> t])]
       ELSE IF entry.count >= RATE_LIMIT_MAX(h)
       THEN [limited |-> TRUE, map |-> m]
       ELSE [limited |-> FALSE,
             map |-> MapSet(m, ip, [count |-> entry.count + 1, start |-> entry.start])]

\* mutant: the count is tested before the expiry of the window
isRateLimited_CountFirst(h, ip, t, m) ==
    LET entry == IF ip \in DOMAIN m THEN m[ip] ELSE [count |-> 0, start |-> t]
    IN IF entry.count >= RATE_LIMIT_MAX(h)
       THEN [limited |-> TRUE, map |-> m]
       ELSE IF t - entry.start > RATE_LIMIT_WINDOW_MS(h)
       THEN [limited |-> FALSE, map |-> MapSet(m, ip, [count |-> 1, start |-> t])]
       ELSE [limited |-> FALSE,
             map |-> MapSet(m, ip, [count |-> entry.count + 1, start |-> entry.start])]

\* mutant: a denied request restarts the window of its ip
isRateLimited_DenyRestarts(h, ip, t, m) ==
    LET entry == IF ip \in DOMAIN m THEN m[ip] ELSE [count |-> 0, start |-> t]
    IN IF t - entry.start > RATE_LIMIT_WINDOW_MS(h)
       THEN [limited |-> FALSE, map |-> MapSet(m, ip, [count |-> 1, start |-> t])]
       ELSE IF entry.count >= RATE_LIMIT_MAX(h)
       THEN [limited |-> TRUE,
             map |-> MapSet(m, ip, [count |-> entry.count, start |-> t])]
       ELSE [limited |-> FALSE,
             map |-> MapSet(m, ip, [count |-> entry.count + 1, start |-> entry.start])]

\* mutant: the count is raised before it is compared with the maximum
isRateLimited_CountsDenied(h, ip, t, m) ==
    LET entry == IF ip \in DOMAIN m THEN m[ip] ELSE [count |-> 0, start |-> t]
    IN IF t - entry.start > RATE_LIMIT_WINDOW_MS(h)
       THEN [limited |-> FALSE, map |-> MapSet(m, ip, [count |-> 1, start |-> t])]
       ELSE [limited |-> entry.count >= RATE_LIMIT_MAX(h),
             map |-> MapSet(m, ip, [count |-> entry.count + 1, start |-> entry.start])]

\* mutant: opening a new window clears the table of the other ips
isRateLimited_Prunes(h, ip, t, m) ==
    LET entry == IF ip \in DOMAIN m THEN m[ip] ELSE [count |-> 0, start |-> t]
    IN IF t - entry.start > RATE_LIMIT_WINDOW_MS(h)
       THEN [limited |-> FALSE, map |-> MapSet(<<>>, ip, [count |-> 1, start |-> t])]
       ELSE IF entry.count >= RATE_LIMIT_MAX(h)
       THEN [limited |-> TRUE, map |-> m]
       ELSE [limited |-> FALSE,
             map |-> MapSet(m, ip, [count |-> entry.count + 1, start |-> entry.start])]

\* isRateLimited(ip) of handler h, called at time t with table m: the answer
\* and the table it leaves
isRateLimited(h, ip, t, m) ==
    LET entry == IF ip \in DOMAIN m THEN m[ip] ELSE [count |-> 0, start |-> t]
    IN IF t - entry.start > RATE_LIMIT_WINDOW_MS(h)
       THEN [limited |-> FALSE, map |-> MapSet(m, ip, [count |-> 1, start |-> t])]
       ELSE IF entry.count >= RATE_LIMIT_MAX(h)
       THEN [limited |-> TRUE, map |-> m]
       ELSE [limited |-> FALSE,
             map |-> MapSet(m, ip, [count |-> entry.count + 1, start |-> entry.start])]

----------------------------------------------------------------------------
(* Requests and responses *)

UNKNOWN == Lit(<<"u", "n", "k", "n", "o", "w", "n">>)

\* mutant: a request without origin header is taken for the site's own
Origin_DefaultAllowed(event) ==
    IF "origin" \in DOMAIN event.headers THEN event.headers["origin"] ELSE ALLOWED_ORIGIN

\* event.headers['origin'] || ''
Origin(event) ==
    IF "origin" \in DOMAIN event.headers THEN event.headers["origin"] ELSE ""

\* mutant: an empty first value is kept as the key
ClientIp_EmptyKept(event) ==
    IF "x-forwarded-for" \notin DOMAIN event.headers THEN UNKNOWN
    ELSE SplitFirst(event.headers["x-forwarded-for"])

\* event.headers['x-forwarded-for']?.split(',')[0] || 'unknown'
ClientIp(event) ==
    IF "x-forwarded-for" \notin DOMAIN event.headers THEN UNKNOWN
    ELSE LET first == SplitFirst(event.headers["x-forwarded-for"])
         IN IF first = <<>> THEN UNKNOWN ELSE first

NoHeaders == {}
JsonHeaders == {<<"Content-Type", "application/json">>}
CorsHeaders == {<<"Content-Type", "application/json">>,
                <<"Access-Control-Allow-Origin", ALLOWED_ORIGIN>>}

\* what an invocation does when it stops running: it returns a response, it
\* throws, or it starts its fetch and suspends
Response(status, body, headers, m) ==
    [kind |-> "response", statusCode |-> status, body |-> body, headers |-> headers,
     payload |-> JUndefined, map |-> m]

Thrown(m) ==
    [kind |-> "throw", statusCode |-> 0, body |-> "TypeError", headers |-> NoHeaders,
     payload |-> JUndefined, map |-> m]

Fetch(payload, m) ==
    [kind |-> "fetch", statusCode |-> 0, body |-> "", headers |-> NoHeaders,
     payload |-> payload, map |-> m]

TooManyRequests(h) ==
    IF h = "connexion" THEN "{\"error\":\"Too many requests\"}"
    ELSE "{\"error\":\"Trop d'avis envoyes. Attendez quelques minutes.\"}"   \* accents left out

----------------------------------------------------------------------------
(* Connection handler: sanitizing the embeds *)

Min(a, b) == IF a < b THEN a ELSE b

\* a.slice(0, k) of an array
ArrSlice(a, k) == SubSeq(a, 1, Min(k, Len(a)))

\* f => ({ name, value, inline })
SafeField(f) ==
    JObj([name |-> JStr(StrSlice(JsString(Or(Prop(f, "name"), EmptyString)), 256)),
          value |-> JStr(StrSlice(JsString(Or(Prop(f, "value"), EmptyString)), 1024)),
          inline |-> JBool(Truthy(Prop(f, "inline")))])

\* embed.thumbnail?.url
ThumbnailUrl(embed) ==
    IF Nullish(Prop(embed, "thumbnail")) THEN JUndefined
    ELSE Prop(Prop(embed, "thumbnail"), "url")

\* embed => ({ title, description, color, thumbnail, fields, timestamp })
SafeEmbed(embed, t) ==
    LET fields == Prop(embed, "fields")
        kept == IF fields.t = "array" THEN ArrSlice(fields.a, 25) ELSE <<>>
    IN JObj([title |-> JStr(StrSlice(JsString(Or(Prop(embed, "title"), EmptyString)), 256)),
             description |->
                 JStr(StrSlice(JsString(Or(Prop(embed, "description"), EmptyString)), 4096)),
             color |-> IF Prop(embed, "color").t = "number" THEN Prop(embed, "color")
                       ELSE JNum(Lit(<<"0">>)),
             thumbnail |->
                 IF Truthy(ThumbnailUrl(embed))
                 THEN JObj([url |-> JStr(StrSlice(JsString(ThumbnailUrl(embed)), 512))])
                 ELSE JUndefined,
             fields |-> JArr([i \in 1..Len(kept) |-> SafeField(kept[i])]),
             timestamp |-> JIsoDate(t)])

\* the callbacks read a property of each embed and of each kept field: a null
\* embed or field makes the map throw a TypeError
EmbedThrows(embed) ==
    \/ Nullish(embed)
    \/ LET fields == Prop(embed, "fields")
       IN /\ fields.t = "array"
          /\ \E i \in 1..Min(25, Len(fields.a)) : Nullish(fields.a[i])

\* mutant: a request whose body is rejected gives its slot back
connexionBody_Refunds(event, t, e, m) ==
    LET parsed == JSONparse(event.body)
        payload == parsed.value
        embeds == Prop(payload, "embeds")
        refunded == [m EXCEPT ![ClientIp(event)].count = @ - 1]
    IN IF parsed.threw THEN Response(400, "Invalid JSON", NoHeaders, refunded)
       ELSE IF Nullish(payload) THEN Thrown(m)
       ELSE IF ~Truthy(embeds) \/ embeds.t # "array"
       THEN Response(400, "Invalid payload structure", NoHeaders, refunded)
       ELSE IF \E i \in 1..Len(embeds.a) : EmbedThrows(embeds.a[i]) THEN Thrown(m)
       ELSE IF ~WebhookConfigured(e, "connexion")
       THEN Response(500, "Webhook not configured", NoHeaders, m)
       ELSE Fetch(JSONstringify(
                    JObj([embeds |-> JArr([i \in 1..Len(embeds.a) |->
                                              SafeEmbed(embeds.a[i], t)])])), m)

\* mutant: a request of an ip that was already admitted in the window is taken
\* for a duplicate and acknowledged without being forwarded
connexionBody_Dedup(event, t, e, m) ==
    LET parsed == JSONparse(event.body)
        payload == parsed.value
        embeds == Prop(payload, "embeds")
    IN IF parsed.threw THEN Response(400, "Invalid JSON", NoHeaders, m)
       ELSE IF Nullish(payload) THEN Thrown(m)
       ELSE IF ~Truthy(embeds) \/ embeds.t # "array"
       THEN Response(400, "Invalid payload structure", NoHeaders, m)
       ELSE IF \E i \in 1..Len(embeds.a) : EmbedThrows(embeds.a[i]) THEN Thrown(m)
       ELSE IF ~WebhookConfigured(e, "connexion")
       THEN Response(500, "Webhook not configured", NoHeaders, m)
       ELSE IF m[ClientIp(event)].count > 1
       THEN Response(200, "{\"success\":true}", CorsHeaders, m)
       ELSE Fetch(JSONstringify(
                    JObj([embeds |-> JArr([i \in 1..Len(embeds.a) |->
                                              SafeEmbed(embeds.a[i], t)])])), m)

\* the handler from JSON.parse to the fetch call, the limiter having admitted
\* the request and left the table m
connexionBody(event, t, e, m) ==
    LET parsed == JSONparse(event.body)
        payload == parsed.value
        embeds == Prop(payload, "embeds")
    IN IF parsed.threw THEN Response(400, "Invalid JSON", NoHeaders, m)
       ELSE IF Nullish(payload) THEN Thrown(m)
       ELSE IF ~Truthy(embeds) \/ embeds.t # "array"
       THEN Response(400, "Invalid payload structure", NoHeaders, m)
       ELSE IF \E i \in 1..Len(embeds.a) : EmbedThrows(embeds.a[i]) THEN Thrown(m)
       ELSE IF ~WebhookConfigured(e, "connexion")
       THEN Response(500, "Webhook not configured", NoHeaders, m)
       ELSE Fetch(JSONstringify(
                    JObj([embeds |-> JArr([i \in 1..Len(embeds.a) |->
                                              SafeEmbed(embeds.a[i], t)])])), m)

----------------------------------------------------------------------------
(* Review handler: validating the review and building the notification *)

\* characters outside ASCII are named by their code point
Banner == Lit(<<"U+2B50", " ", "*", "*", "N", "o", "u", "v", "e", "l", " ", "a", "v", "i", "s",
                " ", "r", "e", "U+00E7", "u", " ", "!", "*", "*">>)
EmbedTitle == Lit(<<"U+1F4AC", " ", "A", "v", "i", "s", " ", "C", "l", "i", "e", "n", "t">>)

\* '⭐'.repeat(n)
Stars(n) == IF n <= 0 THEN <<>> ELSE <<Run("U+2B50", n)>>

NamedField(name, value, inline) ==
    JObj([name |-> JStr(name), value |-> JStr(value), inline |-> JBool(inline)])

\* the handler from JSON.parse to the fetch call, the limiter having admitted
\* the request and left the table m
avisBody(event, t, e, m) ==
    LET parsed == JSONparse(event.body)
        payload == parsed.value
        username == Prop(payload, "username")
        userId == Prop(payload, "userId")
        rating == Prop(payload, "rating")
        comment == Prop(payload, "comment")
        avatarUrl == Prop(payload, "avatarUrl")
        safeRating == parseInt(JsString(rating))
        safeComment == StrSlice(JsString(comment), 500)
    IN IF parsed.threw THEN Response(400, "Invalid JSON", NoHeaders, m)
       ELSE IF Nullish(payload) THEN Thrown(m)
       ELSE IF ~Truthy(username) \/ ~Truthy(userId) \/ ~Truthy(rating) \/ ~Truthy(comment)
       THEN Response(400, "Missing fields", NoHeaders, m)
       ELSE IF safeRating.nan \/ safeRating.v < 1 \/ safeRating.v > 5
       THEN Response(400, "Invalid rating", NoHeaders, m)
       ELSE IF StrLen(StrTrim(safeComment)) < 5
       THEN Response(400, "Comment too short", NoHeaders, m)
       ELSE IF ~IsDiscordId(JsString(userId))
       THEN Response(400, "Invalid user ID", NoHeaders, m)
       ELSE IF ~WebhookConfigured(e, "avis")
       THEN Response(500, "Webhook not configured", NoHeaders, m)
       ELSE Fetch(JSONstringify(
              JObj([content |-> JStr(Banner),
                    embeds |-> JArr(<<
                      JObj([title |-> JStr(EmbedTitle),
                            color |-> JNum(Lit(<<"1", "6", "7", "7", "7", "2", "1", "5">>)),
                            thumbnail |->
                                IF Truthy(avatarUrl)
                                THEN JObj([url |-> JStr(StrSlice(JsString(avatarUrl), 512))])
                                ELSE JUndefined,
                            fields |-> JArr(<<
                                NamedField(Lit(<<"U", "t", "i", "l", "i", "s", "a", "t", "e", "u", "r">>),
                                           StrSlice(JsString(username), 100), TRUE),
                                NamedField(Lit(<<"I", "D">>),
                                           StrSlice(JsString(userId), 20), TRUE),
                                NamedField(Lit(<<"N", "o", "t", "e">>),
                                           Stars(safeRating.v), FALSE),
                                NamedField(Lit(<<"C", "o", "m", "m", "e", "n", "t", "a", "i", "r", "e">>),
                                           safeComment, FALSE)>>),
                            timestamp |-> JIsoDate(t)])>>)])), m)

----------------------------------------------------------------------------
(* The handlers, from their entry to their return, throw or fetch *)

\* mutant: the limiter is asked before the method is checked
connexionHandler_LimiterFirst(event, t, e, m) ==
    IF Origin(event) # ALLOWED_ORIGIN THEN Response(403, "Forbidden", NoHeaders, m)
    ELSE LET rl == isRateLimited("connexion", ClientIp(event), t, m)
         IN IF rl.limited
            THEN Response(429, TooManyRequests("connexion"), JsonHeaders, rl.map)
            ELSE IF event.httpMethod # "POST"
            THEN Response(405, "Method Not Allowed", NoHeaders, rl.map)
            ELSE connexionBody(event, t, e, rl.map)

\* mutant: the limiter is asked before the origin is checked
connexionHandler_CountsForbidden(event, t, e, m) ==
    LET rl == isRateLimited("connexion", ClientIp(event), t, m)
    IN IF Origin(event) # ALLOWED_ORIGIN THEN Response(403, "Forbidden", NoHeaders, rl.map)
       ELSE IF event.httpMethod # "POST"
       THEN Response(405, "Method Not Allowed", NoHeaders, rl.map)
       ELSE IF rl.limited
       THEN Response(429, TooManyRequests("connexion"), JsonHeaders, rl.map)
       ELSE connexionBody(event, t, e, rl.map)

connexionHandler(event, t, e, m) ==
    IF Origin(event) # ALLOWED_ORIGIN THEN Response(403, "Forbidden", NoHeaders, m)
    ELSE IF event.httpMethod # "POST"
    THEN Response(405, "Method Not Allowed", NoHeaders, m)
    ELSE LET rl == isRateLimited("connexion", ClientIp(event), t, m)
         IN IF rl.limited
            THEN Response(429, TooManyRequests("connexion"), JsonHeaders, rl.map)
            ELSE connexionBody(event, t, e, rl.map)

\* mutant: the method is not checked
avisHandler_AnyMethod(event, t, e, m) ==
    IF Origin(event) # ALLOWED_ORIGIN THEN Response(403, "Forbidden", NoHeaders, m)
    ELSE LET rl == isRateLimited("avis", ClientIp(event), t, m)
         IN IF rl.limited
            THEN Response(429, TooManyRequests("avis"), JsonHeaders, rl.map)
            ELSE avisBody(event, t, e, rl.map)

avisHandler(event, t, e, m) ==
    IF Origin(event) # ALLOWED_ORIGIN THEN Response(403, "Forbidden", NoHeaders, m)
    ELSE IF event.httpMethod # "POST"
    THEN Response(405, "Method Not Allowed", NoHeaders, m)
    ELSE LET rl == isRateLimited("avis", ClientIp(event), t, m)
         IN IF rl.limited
            THEN Response(429, TooManyRequests("avis"), JsonHeaders, rl.map)
            ELSE avisBody(event, t, e, rl.map)

Handler(h, event, t, e, m) ==
    IF h = "connexion" THEN connexionHandler(event, t, e, m)
    ELSE avisHandler(event, t, e, m)

\* the handler after its await: the fetch resolved with response.ok, resolved
\* without it, or rejected
Settlements == {"ok", "not ok", "rejected"}

\* mutant: response.ok is not looked at
afterFetch_IgnoreStatus(settlement, m) ==
    CASE settlement \in {"ok", "not ok"} -> Response(200, "{\"success\":true}", CorsHeaders, m)
      [] settlement = "rejected" -> Response(502, "Network error", NoHeaders, m)

afterFetch(settlement, m) ==
    CASE settlement = "ok" -> Response(200, "{\"success\":true}", CorsHeaders, m)
      [] settlement = "not ok" -> Response(502, "Discord webhook failed", NoHeaders, m)
      [] settlement = "rejected" -> Response(502, "Network error", NoHeaders, m)

----------------------------------------------------------------------------
(* The requests the model sends *)

Rep(c, n) == <<Run(c, n)>>

Absent == [present |-> FALSE, v |-> ""]
OriginInputs == {Absent,
                 [present |-> TRUE, v |-> ALLOWED_ORIGIN],
                 [present |-> TRUE, v |-> "https://evil.example"]}

\* no header, an empty header, one address, a proxy chain
XffInputs == {[present |-> FALSE, v |-> <<>>],
              [present |-> TRUE, v |-> <<>>],
              [present |-> TRUE, v |-> Lit(<<"1">>)],
              [present |-> TRUE, v |-> Lit(<<"1", ",", "2">>)]}

\* the addresses sent with every combination of origin and method
CommonXffInputs == {x \in XffInputs : x.v \in {<<>>, Lit(<<"1">>)} /\ (x.present <=> x.v # <<>>)}

Headers(o, x) ==
    [k \in (IF o.present THEN {"origin"} ELSE {})
             \cup (IF x.present THEN {"x-forwarded-for"} ELSE {})
        |-> IF k = "origin" THEN o.v ELSE x.v]

Methods == {"POST", "GET"}


SomeField(i) ==
    JObj([name |-> JStr(Rep("n", i)), value |-> JStr(Rep("v", 2000)), inline |-> JNum(Lit(<<"1">>))])

GoodEmbed ==
    JObj([title |-> JStr(Lit(<<"h", "i">>)),
          description |-> JStr(Rep("d", 10)),
          color |-> JNum(Lit(<<"7">>)),
          fields |-> JArr(<<SomeField(1)>>)])

BigEmbed ==
    JObj([title |-> JStr(Rep("t", 300)),
          description |-> JStr(Rep("d", 10000)),
          color |-> JStr(Lit(<<"r", "e", "d">>)),
          thumbnail |-> JObj([url |-> JStr(Rep("u", 600))]),
          fields |-> JArr([i \in 1..26 |-> SomeField(i)]),
          timestamp |-> JStr(Lit(<<"1", "9", "7", "0">>))])

Embeds(v) == JsonText(JObj([embeds |-> v]))

ConnexionBodies ==
    {JsonText(JNum(Lit(<<"5">>))),
     JsonText(JObj(<<>>)),
     Embeds(JStr(Lit(<<"x">>))),
     Embeds(JArr(<<JNull>>)),
     Embeds(JArr(<<JObj([fields |-> JArr(<<JNull>>)])>>)),
     Embeds(JArr(<<JNum(Lit(<<"5">>))>>)),
     \* the body {"embeds":[{"color":1e999}]}
     Embeds(JArr(<<JObj([color |-> Infinity])>>))}

Review(username, userId, rating, comment) ==
    JsonText(JObj([username |-> username, userId |-> userId,
                   rating |-> rating, comment |-> comment]))

Bob == JStr(Lit(<<"b", "o", "b">>))
Id15 == JStr(Rep("1", 15))
Three == JNum(Lit(<<"3">>))
Great == JStr(Lit(<<"g", "r", "e", "a", "t">>))

AvisBodies ==
    {JsonText(JObj([username |-> JStr(Rep("b", 150)), userId |-> JNum(Rep("2", 20)),
                    rating |-> JStr(Lit(<<"5">>)), comment |-> JStr(Rep("c", 600)),
                    avatarUrl |-> JStr(Rep("a", 600))])),
     JsonText(JObj([userId |-> Id15, rating |-> Three, comment |-> Great])),
     Review(Bob, Id15, JNum(Lit(<<"0">>)), Great),
     Review(Bob, Id15, JNum(Lit(<<"6">>)), Great),
     Review(Bob, Id15, JStr(Lit(<<"a", "b", "c">>)), Great),
     Review(Bob, Id15, Three, JStr(Lit(<<"h", "i">>))),
     Review(Bob, Id15, Three, JStr(Rep(" ", 498) \o Rep("c", 102))),
     Review(Bob, JStr(Lit(<<"1", "2", "3">>)), Three, Great)}

\* bodies sent with every combination of origin and method: none, not JSON,
\* and a payload the handler forwards
CommonBodies(h) ==
    {NoBody, Malformed,
     IF h = "connexion" THEN Embeds(JArr(<<GoodEmbed, BigEmbed>>))
     ELSE Review(Bob, Id15, Three, Great)}

\* bodies sent with the allowed origin and POST
Bodies(h) ==
    CommonBodies(h) \cup {JsonText(JNull)}
        \cup (IF h = "connexion" THEN ConnexionBodies ELSE AvisBodies)

Event(o, x, meth, b) == [headers |-> Headers(o, x), httpMethod |-> meth, body |-> b]

\* every origin, method and common body with and without an address; from the
\* site, every form of the header with the common bodies and every body with
\* and without an address
Events(h) ==
    {Event(o, x, meth, b) :
        o \in OriginInputs, x \in CommonXffInputs, meth \in Methods, b \in CommonBodies(h)}
    \cup {Event([present |-> TRUE, v |-> ALLOWED_ORIGIN], x, "POST", b) :
            x \in XffInputs, b \in CommonBodies(h)}
    \cup {Event([present |-> TRUE, v |-> ALLOWED_ORIGIN], x, "POST", b) :
            x \in CommonXffInputs, b \in Bodies(h)}

NoEvent == [headers |-> <<>>, httpMethod |-> "", body |-> NoBody]

\* process.env as the deployment may set it
Environments(h) ==
    {[k \in D |-> v] : D \in SUBSET {WebhookVar(h)},
                       v \in {"", "https://discord.com/api/webhooks/1"}}

\* the clock advances by the length of the window or by a millisecond more
TickSteps(h) == {RATE_LIMIT_WINDOW_MS(h), RATE_LIMIT_WINDOW_MS(h) + 1}

----------------------------------------------------------------------------
(* State machine *)

Slots == 1..MaxInFlight
Idle == [busy |-> FALSE]

\* before is the table as the step found it
Step(step, h, event, ip, settlement, before, out) ==
    [step |-> step, h |-> h, event |-> event, ip |-> ip, settlement |-> settlement,
     before |-> before, kind |-> out.kind,
     statusCode |-> out.statusCode, body |-> out.body, headers |-> out.headers,
     payload |-> out.payload]

Nothing == [kind |-> "none", statusCode |-> 0, body |-> "", headers |-> NoHeaders,
            payload |-> JUndefined]

NoStep == Step("idle", "", NoEvent, <<>>, "", <<>>, Nothing)

Init ==
    /\ fn \in Handlers
    /\ now = 0
    /\ ticks = 0
    /\ env \in Environments(fn)
    /\ rateLimitMap = [h \in Handlers |-> <<>>]
    /\ window = [h \in Handlers |-> <<>>]
    /\ inflight = [s \in Slots |-> Idle]
    /\ last = NoStep

\* the limiter was called: the request was not turned away before it
ReachedLimiter(out) == ~(out.kind = "response" /\ out.statusCode \in {403, 405})

\* the limiter let the request through
Admitted(out) == ReachedLimiter(out) /\ ~(out.kind = "response" /\ out.statusCode = 429)

\* The windows as the specification counts them, kept apart from the
\* limiter's table: a window of an ip opens with the ip's first request to
\* reach the limiter and with the first one made more than the window length
\* after the opening. opened is the time of the opening, seen and admitted
\* count the requests that reached the limiter and that it let through since
\* then (the opening one included).
OpenWindow(t) == [opened |-> t, seen |-> 1, admitted |-> 1]

Count(h, ip, t, w, isAdmitted) ==
    IF ip \notin DOMAIN w THEN OpenWindow(t)
    ELSE IF t - w[ip].opened > RATE_LIMIT_WINDOW_MS(h) THEN OpenWindow(t)
    ELSE [w[ip] EXCEPT !.seen = @ + 1,
                       !.admitted = @ + (IF isAdmitted THEN 1 ELSE 0)]

\* one invocation of handler h runs from its entry to its return, its throw
\* or its await
Invoke(h, event) ==
    LET out == Handler(h, event, now, env, rateLimitMap[h])
        ip == ClientIp(event)
        counted == Count(h, ip, now, window[h], Admitted(out))
        free == {s \in Slots : ~inflight[s].busy}
    IN /\ h = fn
       /\ last = NoStep
       /\ ReachedLimiter(out) => counted.seen <= RATE_LIMIT_MAX(h) + MaxSeenExtra
       /\ out.kind = "fetch" => free # {}
       /\ rateLimitMap' = [rateLimitMap EXCEPT ![h] = out.map]
       /\ IF ReachedLimiter(out)
          THEN window' = [window EXCEPT ![h] = MapSet(@, ip, counted)]
          ELSE UNCHANGED window
       /\ IF out.kind = "fetch"
          THEN LET s == CHOOSE x \in free : \A y \in free : x <= y
               IN inflight' = [inflight EXCEPT ![s] = [busy |-> TRUE]]
          ELSE UNCHANGED inflight
       /\ last' = Step("invoke", h, event, ip, "", rateLimitMap[h], out)
       /\ UNCHANGED <<fn, now, ticks, env>>

\* the fetch of a suspended invocation settles and the invocation returns
Settle(s, settlement) ==
    /\ last = NoStep
    /\ inflight[s].busy
    /\ inflight' = [inflight EXCEPT ![s] = Idle]
    /\ last' = Step("settle", fn, NoEvent, <<>>, settlement, rateLimitMap[fn],
                    afterFetch(settlement, rateLimitMap[fn]))
    /\ UNCHANGED <<fn, now, ticks, env, rateLimitMap, window>>

\* The record of a step is dropped before anything else happens, so that no
\* state carries the history of more than one request.
Forget ==
    /\ last # NoStep
    /\ last' = NoStep
    /\ UNCHANGED <<fn, now, ticks, env, rateLimitMap, window, inflight>>

\* time passes
Tick(d) ==
    /\ last = NoStep
    /\ ticks < MaxTicks
    /\ now' = now + d
    /\ ticks' = ticks + 1
    /\ last' = NoStep
    /\ UNCHANGED <<fn, env, rateLimitMap, window, inflight>>

Next ==
    \/ \E h \in Handlers : \E event \in Events(h) : Invoke(h, event)
    \/ \E s \in Slots : \E settlement \in Settlements : Settle(s, settlement)
    \/ \E d \in TickSteps(fn) : Tick(d)
    \/ Forget

Spec == Init /\ [][Next]_vars

\* A client replays one request: every request of an ip is the same valid
\* POST from the site, so whatever an ip has sent before is identical to what
\* it sends now.
ReplayedEvents(h) ==
    {Event([present |-> TRUE, v |-> ALLOWED_ORIGIN], x, "POST",
           IF h = "connexion" THEN Embeds(JArr(<<GoodEmbed, BigEmbed>>))
           ELSE Review(Bob, Id15, Three, Great)) : x \in CommonXffInputs}

ReplayNext ==
    \/ \E h \in Handlers : \E event \in ReplayedEvents(h) : Invoke(h, event)
    \/ \E s \in Slots : \E settlement \in Settlements : Settle(s, settlement)
    \/ \E d \in TickSteps(fn) : Tick(d)
    \/ Forget

ReplaySpec == Init /\ [][ReplayNext]_vars

\* A fetch that was started resolves or rejects in the end, and the event
\* loop then resumes the invocation that awaits it; the record of a step is
\* always dropped.
FairSpec ==
    /\ Spec
    /\ WF_vars(Forget)
    /\ \A s \in Slots : SF_vars(\E settlement \in Settlements : Settle(s, settlement))

----------------------------------------------------------------------------
(* Properties *)

\* the request of the step just taken, as the client sent it
SentOrigin == IF "origin" \in DOMAIN last.event.headers
              THEN last.event.headers["origin"] ELSE ""
FromSite == SentOrigin = "https://devcenter.vyral-studio.fr"
Answered(status) == last.kind = "response" /\ last.statusCode = status
\* the request was handed to the limiter
Limited == last.step = "invoke" /\ FromSite /\ last.event.httpMethod = "POST"
MaxCount(h) == IF h = "connexion" THEN 5 ELSE 2
WindowLength(h) == IF h = "connexion" THEN 60000 ELSE 300000
Table == rateLimitMap[last.h]
Known == last.ip \in DOMAIN last.before
Busy == Cardinality({s \in Slots : inflight[s].busy})

\* C1: the N-th request of an ip to reach the limiter in the ip's current
\* window is admitted iff N <= maxCount (5 connexion, 2 avis); every further
\* one is answered 429.
C1_AdmittedIffWithinMax ==
    Limited =>
        LET n == window[last.h][last.ip].seen
        IN /\ n <= MaxCount(last.h) => ~Answered(429)
           /\ n > MaxCount(last.h) => Answered(429)

C1_Witness ==
    /\ Limited
    /\ last.h = "connexion"
    /\ Answered(429)
    /\ window[last.h][last.ip].seen = 6
    /\ window[last.h][last.ip].admitted = 5

\* C2 (as amended): the admission check runs to its end before any other
\* invocation runs, so whatever the interleaving of invocations, suspended
\* ones included, at most maxCount requests of an ip are admitted in one
\* window.
C2_NeverMoreThanMax ==
    \A h \in Handlers : \A ip \in DOMAIN window[h] :
        window[h][ip].admitted <= MaxCount(h)

\* a request arrives in the instant the window opened, while an admitted one
\* of the same window is suspended in its fetch, and is denied
C2_Witness ==
    /\ Limited
    /\ Answered(429)
    /\ Busy > 0
    /\ window[last.h][last.ip].opened = now
    /\ window[last.h][last.ip].admitted = MaxCount(last.h)

\* C2 as stated: requests of one ip that arrive in the same instant, while
\* earlier ones of them are still being served, race past the limiter: when
\* more than maxCount of them have reached it, more than maxCount have been
\* admitted in the window.
C2_RacePastLimiter ==
    (/\ Limited
     /\ Busy > 0
     /\ window[last.h][last.ip].opened = now
     /\ window[last.h][last.ip].seen > MaxCount(last.h))
        => window[last.h][last.ip].admitted > MaxCount(last.h)

\* C3: a request whose origin is not the allowed one (missing and empty
\* included) is answered 403, whatever its method, body, ip and the state of
\* the limiter.
C3_ForeignOriginForbidden ==
    (last.step = "invoke" /\ ~FromSite) => Answered(403)

C3_Witness ==
    /\ last.step = "invoke"
    /\ "origin" \notin DOMAIN last.event.headers
    /\ last.event.httpMethod = "POST"
    /\ Answered(403)
    /\ Known
    /\ last.before[last.ip].count = MaxCount(last.h)

\* C4: a request with the allowed origin and a method other than POST is
\* answered 405, whatever its body, ip and the state of the limiter; never 429.
C4_OtherMethodNotAllowed ==
    (last.step = "invoke" /\ FromSite /\ last.event.httpMethod # "POST") => Answered(405)

C4_Witness ==
    /\ last.step = "invoke"
    /\ FromSite
    /\ last.event.httpMethod = "GET"
    /\ Answered(405)
    /\ Known
    /\ last.before[last.ip].count = MaxCount(last.h)

\* C5: a check made exactly at windowStart + windowLength is still inside the
\* old window: denied when the count has reached maxCount, otherwise counted
\* in the old window, whose start is kept; a new window is opened only by a
\* check with now - windowStart > windowLength.
C5_BoundaryInsideWindow ==
    (Limited /\ Known) =>
        LET old == last.before[last.ip]
        IN /\ now - old.start = WindowLength(last.h) =>
                IF old.count >= MaxCount(last.h)
                THEN Answered(429) /\ Table = last.before
                ELSE ~Answered(429)
                     /\ Table[last.ip] = [count |-> old.count + 1, start |-> old.start]
           /\ Table[last.ip].start # old.start => now - old.start > WindowLength(last.h)

C5_Witness ==
    /\ Limited
    /\ Known
    /\ now - last.before[last.ip].start = WindowLength(last.h)
    /\ ~Answered(429)
    /\ Table[last.ip].count = last.before[last.ip].count + 1
    /\ Table[last.ip].start = last.before[last.ip].start

\* C6: a check made when the ip has no entry, or more than windowLength after
\* its windowStart, is admitted, even if the ip was being denied, and leaves
\* the entry {count: 1, windowStart: now}.
C6_NewWindowAdmits ==
    (Limited /\ (~Known \/ now - last.before[last.ip].start > WindowLength(last.h))) =>
        /\ ~Answered(429)
        /\ Table[last.ip] = [count |-> 1, start |-> now]

C6_Witness ==
    /\ Limited
    /\ Known
    /\ last.before[last.ip].count = MaxCount(last.h)
    /\ now - last.before[last.ip].start > WindowLength(last.h)
    /\ ~Answered(429)
    /\ Table[last.ip] = [count |-> 1, start |-> now]

\* C7: a denied check leaves the whole table as it was: the count and the
\* windowStart of the ip are unchanged, a denied request never restarts the
\* window.
C7_DenyLeavesTable ==
    (last.step = "invoke" /\ Answered(429)) => Table = last.before

C7_Witness ==
    /\ last.step = "invoke"
    /\ Answered(429)
    /\ Known
    /\ last.before[last.ip].start < now
    /\ Table = last.before

\* C8: with the webhook URL missing or empty no fetch is ever started, and a
\* request that passes origin, method, limiter and validation (one that is
\* forwarded when the URL is set) is answered 500.
Unset == WebhookVar(fn) \notin DOMAIN env \/ env[WebhookVar(fn)] = ""
ForwardedWhenSet ==
    Handler(last.h, last.event, now,
            [k \in {WebhookVar(last.h)} |-> "https://discord.com/api/webhooks/1"],
            last.before).kind = "fetch"

C8_UnsetUrlNoFetch ==
    Unset =>
        /\ Busy = 0
        /\ last.step = "invoke" =>
              /\ last.kind # "fetch"
              /\ ForwardedWhenSet => Answered(500)

C8_Witness ==
    /\ WebhookVar(fn) \in DOMAIN env
    /\ env[WebhookVar(fn)] = ""
    /\ last.step = "invoke"
    /\ ForwardedWhenSet
    /\ Answered(500)

\* C9: once the fetch is started, the response is 200 with body
\* {"success":true} and the allowed origin in the CORS header iff the fetch
\* resolved with a success status; a failure status and a rejection both give
\* 502, and no second fetch is made.
C9_ForwardOutcome ==
    [][last'.step = "settle" =>
          /\ last'.kind = "response"
          /\ last'.settlement = "ok" =>
                /\ last'.statusCode = 200
                /\ last'.body = "{\"success\":true}"
                /\ <<"Access-Control-Allow-Origin", "https://devcenter.vyral-studio.fr">>
                       \in last'.headers
          /\ last'.settlement # "ok" => last'.statusCode = 502
          /\ Busy' = Busy - 1]_vars

C9_Witness ==
    /\ last.step = "settle"
    /\ last.settlement = "rejected"
    /\ Answered(502)
    /\ Busy = 0

\* C10: every invocation ends in one response with status 200, 400, 403, 405,
\* 429, 500 or 502, never in an uncaught exception, whatever the body (not
\* JSON, null, a number, embeds or fields holding null); a connexion request
\* past the limiter whose body has no array-valued embeds gets 400.
NoEmbedsArray ==
    /\ ~JSONparse(last.event.body).threw
    /\ LET payload == JSONparse(last.event.body).value
       IN \/ payload.t # "object"
          \/ "embeds" \notin DOMAIN payload.o
          \/ payload.o["embeds"].t # "array"

C10_AlwaysOneResponse ==
    last.step \in {"invoke", "settle"} =>
        /\ last.kind # "throw"
        /\ last.kind = "response" => last.statusCode \in {200, 400, 403, 405, 429, 500, 502}
        /\ (Limited /\ last.h = "connexion" /\ ~Answered(429) /\ NoEmbedsArray)
              => Answered(400)

\* C11 (under ReplaySpec, where every request of an ip is the same valid
\* request): with the URL configured, the k-th request of the ip's window
\* starts its own POST when k <= maxCount, although the identical request was
\* forwarded before, and is answered 429 when k > maxCount; every admitted
\* request being a POST, min(k, maxCount) POSTs were issued for the k requests.
C11_ReplayForwardedUpToMax ==
    (last.step = "invoke" /\ ~Unset) =>
        LET w == window[last.h][last.ip]
        IN /\ w.seen <= MaxCount(last.h) => last.kind = "fetch" /\ last.payload.t = "object"
           /\ w.seen > MaxCount(last.h) => Answered(429) /\ last.payload = JUndefined
           /\ w.admitted = IF w.seen <= MaxCount(last.h) THEN w.seen ELSE MaxCount(last.h)

\* the maxCount-th replay of the window is forwarded like the first
C11_Witness ==
    /\ last.step = "invoke"
    /\ ~Unset
    /\ last.kind = "fetch"
    /\ Known
    /\ last.before[last.ip].count = MaxCount(last.h) - 1
    /\ window[last.h][last.ip].seen = MaxCount(last.h)
    /\ window[last.h][last.ip].admitted = MaxCount(last.h)

\* the x-forwarded-for header of the request of the step just taken
HasXff == "x-forwarded-for" \in DOMAIN last.event.headers
FirstXff == IF HasXff THEN SplitFirst(last.event.headers["x-forwarded-for"]) ELSE <<>>

\* the limiter counted the request under key: the entry of key is the only
\* one it may have touched, and a request that is not denied has changed it;
\* when the key is "unknown" and its entry had reached maxCount inside its
\* window, the request is denied
CountedUnder(key) ==
    /\ key \in DOMAIN Table
    /\ DOMAIN Table = DOMAIN last.before \cup {key}
    /\ \A k \in DOMAIN last.before : k # key => Table[k] = last.before[k]
    /\ ~Answered(429) => (key \notin DOMAIN last.before \/ Table[key] # last.before[key])
    /\ (/\ key = UNKNOWN
        /\ key \in DOMAIN last.before
        /\ last.before[key].count >= MaxCount(last.h)
        /\ now - last.before[key].start <= WindowLength(last.h)) => Answered(429)

\* C12 (as amended): the key of a request is the first comma-separated value
\* of its x-forwarded-for header, or "unknown" when the header is absent or
\* that first value is empty; the requests keyed "unknown" share one counter
\* per handler, and once maxCount of them were admitted in a window every
\* further one is denied.
C12_RateLimitKey ==
    Limited => CountedUnder(IF ~HasXff \/ FirstXff = <<>> THEN UNKNOWN ELSE FirstXff)

\* a request with an empty x-forwarded-for header is denied on the counter of
\* the header-less requests
C12_Witness ==
    /\ Limited
    /\ HasXff
    /\ FirstXff = <<>>
    /\ Answered(429)
    /\ last.before[UNKNOWN].count = MaxCount(last.h)
    /\ <<>> \notin DOMAIN Table

\* C12 as stated: "unknown" is the key only when the header is absent; a
\* header that is present always gives its first value as the key.
C12_KeyAsStated ==
    Limited => CountedUnder(IF ~HasXff THEN UNKNOWN ELSE FirstXff)

\* the review of the step just taken, as JSON.parse gives it
Parsed == JSONparse(last.event.body)
ReviewField(k) ==
    IF Parsed.value.t = "object" /\ k \in DOMAIN Parsed.value.o
    THEN Parsed.value.o[k] ELSE JUndefined

\* the four fields are truthy, the rating parses to an integer in 1..5, the
\* first 500 characters of the comment have a trimmed length of 5 or more and
\* the user id is 15 to 20 decimal digits
ValidReview ==
    /\ \A k \in {"username", "userId", "rating", "comment"} : Truthy(ReviewField(k))
    /\ ~parseInt(JsString(ReviewField("rating"))).nan
    /\ parseInt(JsString(ReviewField("rating"))).v \in 1..5
    /\ StrLen(StrTrim(StrSlice(JsString(ReviewField("comment")), 500))) >= 5
    /\ IsDiscordId(JsString(ReviewField("userId")))

\* C13: a review that passed origin, method, limiter and JSON.parse goes on
\* past validation (to the URL check and the fetch) iff it is a valid review;
\* every other one is answered 400 and nothing is forwarded.
C13_ReviewValidation ==
    (Limited /\ last.h = "avis" /\ ~Answered(429) /\ ~Parsed.threw) =>
        IF ValidReview
        THEN last.kind = "fetch" \/ Answered(500)
        ELSE Answered(400) /\ last.payload = JUndefined

\* the embeds of the request of the step just taken and of the payload handed
\* to its fetch
SentEmbeds == Parsed.value.o["embeds"].a
PostedEmbeds == last.payload.o["embeds"].a
AtMost(v, n) == v.t = "string" /\ StrLen(v.s) <= n
SentFields(i) ==
    IF /\ SentEmbeds[i].t = "object"
       /\ "fields" \in DOMAIN SentEmbeds[i].o
       /\ SentEmbeds[i].o["fields"].t = "array"
    THEN SentEmbeds[i].o["fields"].a ELSE <<>>

\* an embed of the connexion payload is within the sanitizer's bounds
BoundedEmbed(i) ==
    LET embed == PostedEmbeds[i].o
        fields == embed["fields"].a
    IN /\ AtMost(embed["title"], 256)
       /\ AtMost(embed["description"], 4096)
       /\ embed["color"].t = "number"
       /\ "thumbnail" \in DOMAIN embed => AtMost(embed["thumbnail"].o["url"], 512)
       /\ Len(fields) = (IF Len(SentFields(i)) < 25 THEN Len(SentFields(i)) ELSE 25)
       /\ \A j \in 1..Len(fields) :
             /\ AtMost(fields[j].o["name"], 256)
             /\ AtMost(fields[j].o["value"], 1024)
             /\ fields[j].o["inline"].t = "boolean"
             /\ (SentFields(i)[j].t = "object" /\ "name" \in DOMAIN SentFields(i)[j].o)
                   => fields[j].o["name"] = SentFields(i)[j].o["name"]
       /\ embed["timestamp"] = [t |-> "string", iso |-> now]

\* the fields of the embed of the review payload, by position
PostedReview == last.payload.o["embeds"].a[1].o
PostedField(j) == PostedReview["fields"].a[j].o["value"]

BoundedReview ==
    /\ AtMost(PostedField(1), 100)
    /\ AtMost(PostedField(2), 20)
    /\ \E n \in 1..5 : /\ PostedField(3) = JStr(<<[c |-> "U+2B50", n |-> n]>>)
                       /\ parseInt(JsString(ReviewField("rating"))).v = n
    /\ AtMost(PostedField(4), 500)
    /\ "thumbnail" \in DOMAIN PostedReview => AtMost(PostedReview["thumbnail"].o["url"], 512)
    /\ PostedReview["timestamp"] = [t |-> "string", iso |-> now]

\* C14: every payload handed to a fetch is within the sanitizer's bounds,
\* whatever the client sent: title <= 256, description <= 4096, a numeric
\* color, thumbnail url <= 512 or none, the first 25 fields at most with name
\* <= 256, value <= 1024 and a boolean inline, the server's timestamp; in a
\* review username <= 100, id <= 20, comment <= 500, avatar url <= 512 and as
\* many stars as the rating, which is in 1..5.
C14_PayloadWithinBounds ==
    (last.step = "invoke" /\ last.kind = "fetch") =>
        IF last.h = "connexion"
        THEN /\ Len(PostedEmbeds) = Len(SentEmbeds)
             /\ \A i \in 1..Len(PostedEmbeds) : BoundedEmbed(i)
        ELSE BoundedReview

\* the entry the limiter found for the ip had reached maxCount inside its window
Exhausted ==
    /\ Known
    /\ last.before[last.ip].count >= MaxCount(last.h)
    /\ now - last.before[last.ip].start <= WindowLength(last.h)

\* the body passed the validation of its handler
PassedValidation ==
    /\ ~Parsed.threw
    /\ IF last.h = "connexion" THEN ~NoEmbedsArray ELSE ValidReview

\* C15: an invocation starts a fetch only if its origin matched, its method
\* was POST, the limiter admitted it, its body passed validation and the URL
\* is configured; it starts one fetch, and starts none after the fetch has
\* settled.
C15_ShortCircuit ==
    /\ (last.step = "invoke" /\ last.kind = "fetch") =>
          /\ FromSite
          /\ last.event.httpMethod = "POST"
          /\ ~Exhausted
          /\ window[last.h][last.ip].seen <= MaxCount(last.h)
          /\ PassedValidation
          /\ ~Unset
          /\ last.payload.t = "object"
          /\ Busy >= 1
    /\ last.kind # "fetch" => last.payload = JUndefined
    /\ last.step = "settle" => last.kind = "response"

\* a review is forwarded while the ip still has room in its window
C15_Witness ==
    /\ last.step = "invoke"
    /\ last.kind = "fetch"
    /\ last.h = "avis"
    /\ Known
    /\ last.before[last.ip].count = 1
    /\ ValidReview
    /\ Busy = 1

\* C16: a request answered 403 or 405 leaves the table as it was (no slot is
\* consumed, no entry is made for its ip) and starts no fetch.
C16_RejectedNoSideEffects ==
    (last.step = "invoke" /\ (Answered(403) \/ Answered(405))) =>
        /\ Table = last.before
        /\ ~Known => last.ip \notin DOMAIN Table
        /\ last.kind # "fetch"
        /\ last.payload = JUndefined

\* a GET that carries a payload the handler would forward, from an ip the
\* table does not know
C16_Witness ==
    /\ last.step = "invoke"
    /\ Answered(405)
    /\ last.event.body \notin {NoBody, Malformed}
    /\ ~Unset
    /\ ~Known
    /\ last.ip \notin DOMAIN Table
    /\ DOMAIN Table # {}

\* the step is an admission check of handler h for the key k
ChecksKey(h, k) ==
    /\ last'.step = "invoke"
    /\ last'.h = h
    /\ last'.ip = k
    /\ ~(last'.kind = "response" /\ last'.statusCode \in {403, 405})

\* C17: a step changes an entry of a handler's table only if it is an
\* admission check of that handler for that ip; the entries of the other ips
\* and the table of the other handler stay as they are, and no entry is ever
\* removed: the keys of a table only grow.
C17_FrameOfAdmission ==
    [][\A h \in {"connexion", "avis"} :
          /\ DOMAIN rateLimitMap[h] \subseteq DOMAIN rateLimitMap'[h]
          /\ \A k \in DOMAIN rateLimitMap'[h] :
                (k \notin DOMAIN rateLimitMap[h] \/ rateLimitMap'[h][k] # rateLimitMap[h][k])
                    => ChecksKey(h, k)]_vars

\* an ip whose window has run out opens a new one; the entry of another ip,
\* which has used up its window, stays as it is
C17_Witness ==
    /\ Limited
    /\ Known
    /\ last.before[last.ip].count = MaxCount(last.h)
    /\ Table[last.ip] = [count |-> 1, start |-> now]
    /\ \E k \in DOMAIN last.before :
          /\ k # last.ip
          /\ Table[k] = last.before[k]
          /\ Table[k].count = MaxCount(last.h)
    /\ \A h \in {"connexion", "avis"} : h # last.h => rateLimitMap[h] = <<>>

\* C18: the slot is taken before the body is looked at. A request the limiter
\* admits is counted in the entry of its ip whatever becomes of it (400, 500,
\* an exception or a fetch), a fetch that fails gives nothing back, and a
\* request with a valid body whose ip has used up its window in this way is
\* answered 429 and not forwarded.
C18_SlotConsumedFirst ==
    /\ (Limited /\ ~Answered(429)) =>
          Table[last.ip].count =
              IF Known /\ now - last.before[last.ip].start <= WindowLength(last.h)
              THEN last.before[last.ip].count + 1 ELSE 1
    /\ last.step = "settle" => Table = last.before
    /\ (Limited /\ PassedValidation /\ Exhausted) =>
          /\ Answered(429)
          /\ last.payload = JUndefined

\* with the URL not configured no request of the window was forwarded; the
\* ip has used up its window and its valid request is denied
C18_Witness ==
    /\ Limited
    /\ Unset
    /\ PassedValidation
    /\ Exhausted
    /\ window[last.h][last.ip].admitted = MaxCount(last.h)
    /\ Answered(429)

\* C19: every entry of a table has a count from 1 to the handler's maxCount,
\* and its windowStart is the time of the request that opened the ip's
\* window, a request the limiter admitted.
C19_EntriesWithinRange ==
    \A h \in {"connexion", "avis"} : \A ip \in DOMAIN rateLimitMap[h] :
        /\ rateLimitMap[h][ip].count >= 1
        /\ rateLimitMap[h][ip].count <= MaxCount(h)
        /\ ip \in DOMAIN window[h]
        /\ rateLimitMap[h][ip].start = window[h][ip].opened
        /\ window[h][ip].admitted >= 1

\* one ip has filled the window it opened at time 0 and was denied since,
\* another has opened its window later
C19_Witness ==
    \E a, b \in DOMAIN rateLimitMap[fn] :
        /\ rateLimitMap[fn][a] = [count |-> MaxCount(fn), start |-> 0]
        /\ window[fn][a].seen > MaxCount(fn)
        /\ rateLimitMap[fn][b].count = 1
        /\ rateLimitMap[fn][b].start = now
        /\ now > 0

\* C20: every invocation returns its response in the end, given that a fetch
\* that was started settles. An invocation that does not start a fetch
\* returns at once, one that does is suspended until its own fetch settles
\* and returns then; meanwhile the process is never blocked, another
\* invocation can always run.
C20_EveryInvocationReturns ==
    /\ [](last.step = "invoke" => last.kind \in {"response", "fetch"})
    /\ [](last.step = "settle" => last.kind = "response")
    /\ \A s \in Slots : inflight[s].busy ~> ~inflight[s].busy
    /\ [](last = NoStep => ENABLED (\E event \in Events(fn) : Invoke(fn, event)))

====
